---- MODULE Spec2Model ----
(***************************************************************************)
(* Navigation-authorization pipeline of the Angular shop:                  *)
(*   core/guards/auth.guard.ts          (isAuthenticated, toggleAuth,      *)
(*                                       getAuthState, authGuard)          *)
(*   core/resolvers/products.resolver.ts (productsResolver)                *)
(*   core/services/product.service.ts   (ProductService.getProducts)       *)
(*   app.routes.ts                      (routes)                           *)
(*   features/auth/login/login.component.ts (LoginComponent)               *)
(*   core/handlers/global-error-handler.ts (GlobalErrorHandler)            *)
(* The router is driven the way the Angular router drives these callbacks: *)
(* a navigation is issued, the route is matched, the guards of the matched *)
(* route run, then its resolvers, then the view is activated; a newer      *)
(* navigation replaces the one in progress.  Matching and canActivate run  *)
(* in the turn that issues the navigation; the resolver's delay(500) is    *)
(* the one stage that lets other callbacks run before the view appears.    *)
(* The remember-me checkbox and localStorage are outside the pipeline and  *)
(* are not part of the state.                                              *)
(***************************************************************************)
EXTENDS Integers, Sequences, FiniteSets, TLC

\* ---------------------------------------------------------------- bounds
MaxTimers == 2      \* login timers pending at once
MaxAttempts == 1    \* value at which submitAttempts stops being driven
MaxToggles == 2     \* toggleAuth calls counted in one behaviour

\* ------------------------------------------------------------ vocabulary
NoParam == "<absent>"            \* queryParams['returnUrl'] is undefined
ProductList == <<1, 2, 3, 4, 5, 6>>   \* ids of ProductService.products

\* values the returnUrl query parameter of the login route takes
ReturnUrls == {NoParam, "", "/products", "/cart", "/nope"}

\* the application's paths (routes table), "/nope" stands for any other path
AppPaths == {"/home", "/products", "/cart", "/login"}
ProtectedPaths == {"/products", "/cart"}

Url(p, r) == [path |-> p, returnUrl |-> r]

\* URLs a user can enter or a link can point to
NavTargets ==
    {Url(p, NoParam) : p \in {"/", "/home", "/products", "/cart", "/nope"}}
        \cup {Url("/login", r) : r \in ReturnUrls}

\* outcomes of one call of a catalog supplier's getProducts()
FetchOutcomes == {"value", "error", "throw"}

\* the values of loginForm at submission
FormValues == {"invalid", "good", "bad"}

VARIABLES
    isAuthenticated,   \* auth.guard.ts: module-level flag
    toggleCount,       \* number of toggleAuth calls so far
    lastToggle,        \* <<what the last toggleAuth call returned>>, <<>> before
    current,           \* URL of the activated route (path "-" before the first)
    nav,               \* the navigation in progress
    resolved,          \* route.data['products'] handed to the products view
    guardLog,          \* the last evaluation of authGuard
    isLoading,         \* LoginComponent.isLoading
    submitAttempts,    \* LoginComponent.submitAttempts
    isAuthSignal,      \* LoginComponent.isAuthenticated (signal)
    timers,            \* pending setTimeout callbacks of onSubmit, oldest first
    supplier,          \* outcomes the injected ProductService can produce
    lastEvent          \* what the last step did

vars == <<isAuthenticated, toggleCount, lastToggle, current, nav,
          resolved, guardLog, isLoading, submitAttempts, isAuthSignal,
          timers, supplier, lastEvent>>

\* ----------------------------------------------------- auth.guard.ts

\* mutant of toggleAuth: sets the flag instead of flipping it
toggleAuth_Set(flag) == TRUE

\* toggleAuth, line 42: the new value of the flag (also the return value)
toggleAuth(flag) == ~flag

\* getAuthState
getAuthState(flag) == flag

Allow == [kind |-> "allow", path |-> "-", returnUrl |-> "-"]
RedirectTo(p, r) == [kind |-> "redirect", path |-> p, returnUrl |-> r]

\* mutants of authGuard: one that lets the cart through, one that redirects
\* to a fixed return URL, one that lets a repeated attempt through
authGuard_SecondTry(flag, stateUrl) ==
    IF flag \/ guardLog.url = stateUrl THEN Allow ELSE RedirectTo("/login", stateUrl)
authGuard_OpenCart(flag, stateUrl) ==
    IF flag \/ stateUrl = "/cart" THEN Allow ELSE RedirectTo("/login", stateUrl)
authGuard_FixedReturn(flag, stateUrl) ==
    IF flag THEN Allow ELSE RedirectTo("/login", "/cart")
\* and one that denies once and lets the next guarded navigation through
authGuard_DenyOnce(flag, stateUrl) ==
    IF flag \/ guardLog.decision.kind = "redirect"
    THEN Allow ELSE RedirectTo("/login", stateUrl)

\* authGuard(route, state): true, or the UrlTree /login?returnUrl=state.url
authGuard(flag, stateUrl) ==
    IF flag THEN Allow ELSE RedirectTo("/login", stateUrl)

\* ----------------------------------------------------- product.service.ts

\* ProductService.getProducts: of(this.products).pipe(delay(500))
getProducts == "value"

\* ----------------------------------------------------- products.resolver.ts

\* mutant of productsResolver: no catchError, the error goes to the router
productsResolver_NoCatch(outcome) ==
    CASE outcome = "value" -> [status |-> "emits", data |-> ProductList]
      [] outcome = "error" -> [status |-> "errors", data |-> <<>>]
      [] outcome = "throw" -> [status |-> "thrown", data |-> <<>>]

\* productsResolver given what productService.getProducts() does: the
\* returned observable emits the list, or of([]) in place of an error; the
\* call throwing escapes before .pipe(catchError) is reached
productsResolver(outcome) ==
    CASE outcome = "value" -> [status |-> "emits", data |-> ProductList]
      [] outcome = "error" -> [status |-> "emits", data |-> <<>>]
      [] outcome = "throw" -> [status |-> "thrown", data |-> <<>>]

\* ----------------------------------------------------- app.routes.ts

\* mutant of routes: the products route without its resolve entry
routes_NoResolve(p) ==
    CASE p \in {"/", "/home"} -> [view |-> "/home", guarded |-> FALSE, resolve |-> FALSE]
      [] p = "/products" -> [view |-> "/products", guarded |-> TRUE, resolve |-> FALSE]
      [] p = "/cart" -> [view |-> "/cart", guarded |-> TRUE, resolve |-> FALSE]
      [] p = "/login" -> [view |-> "/login", guarded |-> FALSE, resolve |-> FALSE]
      [] OTHER -> [view |-> "/not-found", guarded |-> FALSE, resolve |-> FALSE]

\* the route a path matches: its view, whether canActivate: [authGuard],
\* whether resolve: {products: productsResolver}
routes(p) ==
    CASE p \in {"/", "/home"} -> [view |-> "/home", guarded |-> FALSE, resolve |-> FALSE]
      [] p = "/products" -> [view |-> "/products", guarded |-> TRUE, resolve |-> TRUE]
      [] p = "/cart" -> [view |-> "/cart", guarded |-> TRUE, resolve |-> FALSE]
      [] p = "/login" -> [view |-> "/login", guarded |-> FALSE, resolve |-> FALSE]
      [] OTHER -> [view |-> "/not-found", guarded |-> FALSE, resolve |-> FALSE]

\* RouterStateSnapshot.url of a target
stateUrl(u) ==
    IF u.returnUrl = NoParam THEN u.path
    ELSE u.path \o "?returnUrl=" \o u.returnUrl

\* ----------------------------------------------------- login.component.ts

\* mutants of the returnUrl default: one that ignores the parameter, one
\* that tests for undefined only (?? in place of ||)
returnUrlOrHome_AlwaysHome(q) == "/home"
returnUrlOrHome_Nullish(q) == IF q = NoParam THEN "/home" ELSE q

\* queryParams['returnUrl'] || '/home'
returnUrlOrHome(q) == IF q \in {NoParam, ""} THEN "/home" ELSE q

\* mutant of the credentials test: any pair of a valid form passes
credentialsOk_Any(form) == form \in {"good", "bad"}

\* the credentials test of the timer callback
credentialsOk(form) == form = "good"

\* nav: the navigation waiting for its resolver, if any; gen tells a
\* waiting navigation from the one it replaces (the router's navigation id,
\* as far as two navigations that wait one right after the other differ)
Idle == [stage |-> "idle", url |-> Url("-", NoParam), outcome |-> "-", gen |-> 0]
NextGen == IF nav.stage = "resolving" THEN 1 - nav.gen ELSE 0
Resolving(u, o, g) == [stage |-> "resolving", url |-> u, outcome |-> o, gen |-> g]

NoDecision == [kind |-> "none", path |-> "-", returnUrl |-> "-"]
\* guardLog: the URL and decision of the last authGuard evaluation, and in
\* `prev` the decision of the evaluation before it when that one was for the
\* same URL and no toggleAuth call came between the two
NoGuard == [url |-> "-", decision |-> NoDecision, prev |-> NoDecision]

Event(op, to, d, res) == [op |-> op, to |-> to, decision |-> d, result |-> res]

\* the view the router outlet displays, "none" before the first activation
view == IF current.path = "-" THEN "none" ELSE routes(current.path).view

\* activatedRoute.snapshot.queryParams['returnUrl'] of the displayed login view
loginQuery == current.returnUrl

\* redirectTo: 'home' rewrites the empty path
canonical(u) == IF u.path = "/" THEN Url("/home", NoParam) ELSE u

\* a timer of a component that is being destroyed: the component's route
\* snapshot no longer changes, so the returnUrl its success branch will read
\* is fixed (the failure branch reads none)
Detach(t) ==
    IF t.live
    THEN [t EXCEPT !.live = FALSE,
                   !.frozen = IF credentialsOk(t.form)
                              THEN returnUrlOrHome(loginQuery) ELSE "-"]
    ELSE t

\* the fetch a timer was scheduled behind is over
Release(ts) == [i \in DOMAIN ts |-> [ts[i] EXCEPT !.behindFetch = FALSE]]

\* what the router does with a navigation to u while the flag is `flag` and
\* the supplier's next call does o: the decision of canActivate (if the
\* matched route has one), how the navigation ends this turn, and the URL
\* whose route is activated.  A navigation to the URL already activated is
\* skipped (onSameUrlNavigation: 'ignore'); a UrlTree from the guard is
\* navigated to instead.
RouteOutcome(u, flag, o) ==
    LET r == routes(u.path)
        d == authGuard(flag, stateUrl(u))
        t == Url(d.path, d.returnUrl)
    IN  IF u = current
        THEN [decision |-> NoDecision, result |-> "skipped", target |-> current]
        ELSE IF ~r.guarded
        THEN [decision |-> NoDecision, result |-> "rendered", target |-> u]
        ELSE IF d.kind = "redirect"
        THEN [decision |-> d,
              result |-> IF t = current THEN "skipped" ELSE "rendered",
              target |-> t]
        ELSE IF ~r.resolve
        THEN [decision |-> d, result |-> "rendered", target |-> u]
        ELSE IF productsResolver(o).status = "thrown"
        THEN [decision |-> d, result |-> "error", target |-> current]
        ELSE [decision |-> d, result |-> "resolving", target |-> u]

\* getProducts is called when the navigation gets as far as the resolver
FetchChoices(u, flag) ==
    IF RouteOutcome(u, flag, getProducts).result = "resolving"
    THEN supplier ELSE {getProducts}

\* the router activates the route of u: the login view is reused when it is
\* already displayed, otherwise a new component is constructed (its signal
\* initialised from getAuthState()) and the old one destroyed
Activate(u, flag, ld, sig, ts) ==
    /\ current' = canonical(u)
    /\ IF routes(u.path).view = "/login"
       THEN IF view = "/login"
            THEN /\ isLoading' = ld
                 /\ isAuthSignal' = sig
                 /\ UNCHANGED submitAttempts
                 /\ timers' = ts
            ELSE /\ isLoading' = FALSE
                 /\ submitAttempts' = 0
                 /\ isAuthSignal' = getAuthState(flag)
                 /\ timers' = ts
       ELSE /\ isLoading' = FALSE
            /\ submitAttempts' = 0
            /\ isAuthSignal' = FALSE
            /\ timers' = [i \in DOMAIN ts |-> Detach(ts[i])]

\* a navigation to u issued by handler `op`, which leaves the flag at `flag`,
\* the guard log at gl, the login signals at ld and sig and the timers at ts;
\* it replaces the navigation in progress
Route(op, u, flag, gl, ld, sig, ts) ==
    \E o \in FetchChoices(u, flag) :
        LET out == RouteOutcome(u, flag, o)
        IN  /\ nav' = IF out.result = "resolving" THEN Resolving(u, o, NextGen) ELSE Idle
            /\ guardLog' = IF out.decision.kind = "none" THEN gl
                            ELSE [url |-> stateUrl(u), decision |-> out.decision,
                                  prev |-> IF gl.url = stateUrl(u)
                                           THEN gl.decision ELSE NoDecision]
            /\ lastEvent' = Event(op, stateUrl(u), out.decision, out.result)
            /\ IF out.result = "rendered"
               THEN /\ resolved' = <<>>
                    /\ Activate(out.target, flag, ld, sig, Release(ts))
               ELSE /\ isLoading' = ld
                    /\ isAuthSignal' = sig
                    /\ timers' = Release(ts)
                    /\ UNCHANGED <<current, resolved, submitAttempts>>

TypeOK ==
    /\ isAuthenticated \in BOOLEAN
    /\ toggleCount \in 0..MaxToggles
    /\ lastToggle \in {<<>>, <<TRUE>>, <<FALSE>>}
    /\ nav.stage \in {"idle", "resolving"}
    /\ nav.gen \in {0, 1}
    /\ isLoading \in BOOLEAN
    /\ submitAttempts \in 0..MaxAttempts
    /\ isAuthSignal \in BOOLEAN
    /\ Len(timers) <= MaxTimers
    /\ supplier \subseteq FetchOutcomes

InitCommon ==
    /\ isAuthenticated = FALSE
    /\ toggleCount = 0
    /\ lastToggle = <<>>
    /\ current = Url("-", NoParam)
    /\ nav = Idle
    /\ resolved = <<>>
    /\ guardLog = NoGuard
    /\ isLoading = FALSE
    /\ submitAttempts = 0
    /\ isAuthSignal = FALSE
    /\ timers = <<>>
    /\ lastEvent = Event("init", "-", NoDecision, "-")

\* the repository's ProductService is the supplier
Init == InitCommon /\ supplier = {getProducts}

\* ------------------------------------------------------------- the router

\* mutant of Navigate: a navigation that also clears the flag
Navigate_ClearsFlag(u) ==
    /\ Route("navigate", u, FALSE, guardLog, isLoading, isAuthSignal, timers)
    /\ isAuthenticated' = FALSE
    /\ UNCHANGED <<toggleCount, lastToggle, supplier>>

\* the user enters a URL or follows a link
Navigate(u) ==
    /\ Route("navigate", u, isAuthenticated, guardLog, isLoading, isAuthSignal, timers)
    /\ UNCHANGED <<isAuthenticated, toggleCount, lastToggle, supplier>>

\* the observable returned by productsResolver emits after the supplier's
\* delay; the router stores the list in route.data and activates the view
ResolverDelivers ==
    /\ nav.stage = "resolving"
    /\ nav' = Idle
    /\ IF productsResolver(nav.outcome).status = "emits"
       THEN /\ resolved' = productsResolver(nav.outcome).data
            /\ lastEvent' = Event("resolved", stateUrl(nav.url), NoDecision, "rendered")
            /\ Activate(nav.url, isAuthenticated, isLoading, isAuthSignal,
                        Release(timers))
       ELSE /\ lastEvent' = Event("resolved", stateUrl(nav.url), NoDecision, "error")
            /\ timers' = Release(timers)
            /\ UNCHANGED <<current, resolved, isLoading, submitAttempts, isAuthSignal>>
    /\ UNCHANGED <<isAuthenticated, toggleCount, lastToggle, guardLog, supplier>>

\* ------------------------------------------------------- LoginComponent

\* queryParams['returnUrl'] || '/home' as the callback of timer t reads it
ReturnUrlOf(t) == IF t.live THEN returnUrlOrHome(loginQuery) ELSE t.frozen

\* mutant of onSubmit: no validity test, every submission is sent
OnSubmit_NoValidityTest(form) ==
    /\ view = "/login"
    /\ submitAttempts < MaxAttempts
    /\ submitAttempts' = submitAttempts + 1
    /\ Len(timers) < MaxTimers
    /\ toggleCount + Len(timers) < MaxToggles
    /\ isLoading' = TRUE
    /\ timers' = Append(timers,
            [form |-> form, live |-> TRUE, frozen |-> "-",
             behindFetch |-> nav.stage = "resolving"])
    /\ lastEvent' = Event("submit", "-", NoDecision, "-")
    /\ UNCHANGED <<isAuthenticated, toggleCount, lastToggle, current, nav, resolved,
                   guardLog, isAuthSignal, supplier>>

\* onSubmit(): counts the attempt, returns on an invalid form, otherwise
\* sets isLoading and schedules the simulated API call
OnSubmit(form) ==
    /\ view = "/login"
    /\ submitAttempts < MaxAttempts
    /\ submitAttempts' = submitAttempts + 1
    /\ IF form = "invalid"
       THEN /\ lastEvent' = Event("submitInvalid", "-", NoDecision, "-")
            /\ UNCHANGED <<isLoading, timers>>
       ELSE /\ Len(timers) < MaxTimers
            /\ toggleCount + Len(timers) < MaxToggles
            /\ isLoading' = TRUE
            /\ timers' = Append(timers,
                    [form |-> form, live |-> TRUE, frozen |-> "-",
                     behindFetch |-> nav.stage = "resolving"])
            /\ lastEvent' = Event("submit", "-", NoDecision, "-")
    /\ UNCHANGED <<isAuthenticated, toggleCount, lastToggle, current, nav, resolved,
                   guardLog, isAuthSignal, supplier>>

\* mutant of the timer callback: the else branch without isLoading.set(false)
TimerFires_FailureKeepsLoading ==
    /\ timers # <<>>
    /\ ~Head(timers).behindFetch
    /\ LET t == Head(timers)
           rest == Tail(timers)
           returnUrl == ReturnUrlOf(t)
       IN  IF credentialsOk(t.form)
           THEN /\ isAuthenticated' = toggleAuth(isAuthenticated)
                /\ toggleCount' = toggleCount + 1
                /\ lastToggle' = <<toggleAuth(isAuthenticated)>>
                /\ Route("loginSuccess", Url(returnUrl, NoParam),
                         toggleAuth(isAuthenticated), NoGuard,
                         IF t.live THEN FALSE ELSE isLoading,
                         IF t.live THEN TRUE ELSE isAuthSignal, rest)
           ELSE /\ timers' = rest
                /\ lastEvent' = Event("loginFailure", "-", NoDecision, "error")
                /\ UNCHANGED <<isAuthenticated, toggleCount, lastToggle, guardLog,
                               isAuthSignal, nav, current, resolved, submitAttempts,
                               isLoading>>
    /\ UNCHANGED supplier

\* the setTimeout callback of the oldest pending submission: on the right
\* credentials toggleAuth(), isAuthenticated.set(true) and navigateByUrl;
\* otherwise an Error for the global error handler
TimerFires ==
    /\ timers # <<>>
    /\ ~Head(timers).behindFetch
    /\ LET t == Head(timers)
           rest == Tail(timers)
           returnUrl == ReturnUrlOf(t)
       IN  IF credentialsOk(t.form)
           THEN /\ isAuthenticated' = toggleAuth(isAuthenticated)
                /\ toggleCount' = toggleCount + 1
                /\ lastToggle' = <<toggleAuth(isAuthenticated)>>
                /\ Route("loginSuccess", Url(returnUrl, NoParam),
                         toggleAuth(isAuthenticated), NoGuard,
                         IF t.live THEN FALSE ELSE isLoading,
                         IF t.live THEN TRUE ELSE isAuthSignal, rest)
           ELSE /\ isLoading' = IF t.live THEN FALSE ELSE isLoading
                /\ timers' = rest
                /\ lastEvent' = Event("loginFailure", "-", NoDecision, "error")
                /\ UNCHANGED <<isAuthenticated, toggleCount, lastToggle, guardLog,
                               isAuthSignal, nav, current, resolved, submitAttempts>>
    /\ UNCHANGED supplier

\* mutant of quickLogin: navigates whatever toggleAuth returned
QuickLogin_AlwaysNavigates ==
    /\ view = "/login"
    /\ toggleCount + Len(timers) < MaxToggles
    /\ LET newState == toggleAuth(isAuthenticated)
           returnUrl == returnUrlOrHome(loginQuery)
       IN  /\ isAuthenticated' = newState
           /\ toggleCount' = toggleCount + 1
           /\ lastToggle' = <<newState>>
           /\ Route("quickLogin", Url(returnUrl, NoParam), newState, NoGuard,
                    isLoading, newState, timers)
    /\ UNCHANGED supplier

\* quickLogin(): toggles the flag, mirrors it in the signal, and navigates
\* when the new state is logged in
QuickLogin ==
    /\ view = "/login"
    /\ toggleCount + Len(timers) < MaxToggles
    /\ LET newState == toggleAuth(isAuthenticated)
           returnUrl == returnUrlOrHome(loginQuery)
       IN  /\ isAuthenticated' = newState
           /\ toggleCount' = toggleCount + 1
           /\ lastToggle' = <<newState>>
           /\ IF newState
              THEN Route("quickLogin", Url(returnUrl, NoParam), newState, NoGuard,
                         isLoading, newState, timers)
              ELSE /\ isAuthSignal' = newState
                   /\ guardLog' = NoGuard
                   /\ lastEvent' = Event("quickLogin", "-", NoDecision, "-")
                   /\ UNCHANGED <<nav, timers, current, resolved, isLoading,
                                  submitAttempts>>
    /\ UNCHANGED supplier

\* resetForm()
ResetForm ==
    /\ view = "/login"
    /\ submitAttempts' = 0
    /\ lastEvent' = Event("resetForm", "-", NoDecision, "-")
    /\ UNCHANGED <<isAuthenticated, toggleCount, lastToggle, current, nav, resolved,
                   guardLog, isLoading, isAuthSignal, timers, supplier>>

\* the supplier is any catalog supplier: each call of getProducts() may emit
\* the list, emit an error, or throw
InitAnySupplier == InitCommon /\ supplier = FetchOutcomes

Next ==
    \/ \E u \in NavTargets : Navigate(u)
    \/ ResolverDelivers
    \/ \E form \in FormValues : OnSubmit(form)
    \/ TimerFires
    \/ QuickLogin
    \/ ResetForm

Spec == Init /\ [][Next]_vars

\* the repository's pipeline with its timers firing: while a setTimeout(1500)
\* of onSubmit or the delay(500) of the fetch is due, one of them expires
FairTimerSpec == Spec /\ WF_vars(TimerFires \/ ResolverDelivers)

\* the pipeline against any supplier
SupplierSpec == InitAnySupplier /\ [][Next]_vars

\* the same, with the delay(500) timer of the fetch firing
FairSupplierSpec == SupplierSpec /\ WF_vars(ResolverDelivers)

\* ------------------------------------------------------------------ claims

\* C1: whenever authGuard is evaluated it returns Allow exactly when the
\* authentication flag is true at that moment, whatever the target URL.
C1_AllowIffAuthenticated ==
    lastEvent.decision.kind # "none" =>
        (lastEvent.decision.kind = "allow" <=> getAuthState(isAuthenticated))

C1_Witness ==
    /\ lastEvent.decision.kind = "allow"
    /\ lastEvent.to = "/cart"
    /\ current = Url("/cart", NoParam)

\* C2: evaluated with the flag false, authGuard returns a redirect to
\* exactly /login whose returnUrl is the attempted URL, never a plain deny,
\* and the router ends on that login URL.
C2_RedirectCarriesAttemptedUrl ==
    (lastEvent.decision.kind # "none" /\ ~getAuthState(isAuthenticated)) =>
        /\ lastEvent.decision = RedirectTo("/login", lastEvent.to)
        /\ lastEvent.to \in ProtectedPaths
        /\ current = Url("/login", lastEvent.to)

C2_Witness ==
    /\ lastEvent.op = "navigate"
    /\ lastEvent.to = "/products"
    /\ lastEvent.decision = RedirectTo("/login", "/products")
    /\ current = Url("/login", "/products")

\* C3: after the onSubmit timer callback takes the success branch the
\* authentication flag is true, whatever happened before.
C3_LoginLeavesFlagTrue ==
    lastEvent.op = "loginSuccess" => getAuthState(isAuthenticated)

\* C4: the flag starts false; after n toggleAuth calls getAuthState is true
\* exactly when n is odd, and the last call returned what getAuthState
\* returns now.
C4_ToggleParity ==
    /\ getAuthState(isAuthenticated) = (toggleCount % 2 = 1)
    /\ (toggleCount = 0) = (lastToggle = <<>>)
    /\ lastToggle # <<>> => lastToggle[1] = getAuthState(isAuthenticated)

C4_Witness ==
    /\ toggleCount = 2
    /\ lastToggle = <<FALSE>>
    /\ ~getAuthState(isAuthenticated)


\* C5: the login detour.  With the flag false a navigation to a protected
\* path P (from another URL) ends on /login?returnUrl=P; when the login
\* then completes there
\* (flag still false), the flag becomes true, a navigation to P is issued and
\* the guard allows it, so /cart is displayed and /products is displayed
\* with the catalog once its resolver delivers.
C5_LoginDetour ==
    [][ /\ \A P \in ProtectedPaths :
            ( /\ ~isAuthenticated
              /\ current # Url(P, NoParam)
              /\ Navigate(Url(P, NoParam)) ) =>
                /\ lastEvent'.decision = RedirectTo("/login", P)
                /\ current' = Url("/login", P)
        /\ \A P \in ProtectedPaths :
            ( /\ ~isAuthenticated
              /\ current = Url("/login", P)
              /\ timers # <<>>
              /\ Head(timers).live
              /\ TimerFires
              /\ lastEvent'.op = "loginSuccess" ) =>
                /\ isAuthenticated'
                /\ lastEvent'.to = P
                /\ lastEvent'.decision = Allow
                /\ IF P = "/products"
                   THEN nav'.stage = "resolving" /\ nav'.url = Url(P, NoParam)
                   ELSE current' = Url(P, NoParam)
        /\ (nav.stage = "resolving" /\ ResolverDelivers) =>
                /\ current' = nav.url
                /\ resolved' = ProductList
      ]_vars

C5_Witness ==
    /\ lastEvent.op = "loginSuccess"
    /\ lastEvent.to = "/cart"
    /\ lastEvent.decision = Allow
    /\ toggleCount = 1
    /\ isAuthenticated
    /\ current = Url("/cart", NoParam)


\* C6: productsResolver never propagates a fetch failure: whatever
\* getProducts does (emits the list, emits an error, throws), no navigation
\* ends in an error and the products view receives the supplier's list on
\* success and the empty list on a failure.
C6_ResolverNeverPropagates ==
    /\ [](lastEvent.result = "error" => lastEvent.op = "loginFailure")
    /\ [][ (nav.stage = "resolving" /\ ResolverDelivers) =>
                resolved' = IF nav.outcome = "value" THEN ProductList ELSE <<>> ]_vars

C8_ReturnUrlOrHome ==
    [][ LET expected == IF loginQuery = NoParam \/ loginQuery = ""
                        THEN "/home" ELSE loginQuery
        IN  /\ ( /\ timers # <<>>
                  /\ Head(timers).live
                  /\ TimerFires
                  /\ lastEvent'.op = "loginSuccess" ) => lastEvent'.to = expected
            /\ ( /\ timers # <<>>
                  /\ ~Head(timers).live
                  /\ TimerFires
                  /\ lastEvent'.op = "loginSuccess" ) => lastEvent'.to = Head(timers).frozen
            /\ (~isAuthenticated /\ QuickLogin) => lastEvent'.to = expected
            /\ (view = "/login" /\ view' # "/login") =>
                  \A i \in DOMAIN timers' :
                      LET before == timers[i + Len(timers) - Len(timers')]
                      IN  (before.live /\ before.form = "good") =>
                              timers'[i].frozen = expected
      ]_vars

C8_Witness ==
    /\ lastEvent.op = "loginSuccess"
    /\ lastEvent.to = "/home"
    /\ lastEvent.result = "rendered"
    /\ current = Url("/home", NoParam)

\* C9: a returnUrl that is not one of the application's paths is replaced
\* by /home: the navigation issued after a login never targets it.
C9_MalformedReturnUrlGoesHome ==
    (lastEvent.op \in {"loginSuccess", "quickLogin"} /\ lastEvent.to # "-") =>
        lastEvent.to \in AppPaths

\* C10: two evaluations of authGuard in succession for the same URL, with
\* no toggleAuth call between them, give the same decision.
C10_GuardIdempotent ==
    guardLog.prev.kind # "none" => guardLog.decision = guardLog.prev

C10_Witness ==
    /\ guardLog.url = "/cart"
    /\ guardLog.prev = RedirectTo("/login", "/cart")
    /\ guardLog.decision = RedirectTo("/login", "/cart")

\* C11: after the guard denies a navigation to a protected path P (and until
\* the next toggleAuth call, which only the success branch of a login timer
\* and quickLogin make), P is not displayed and no navigation to P is
\* waiting; no step other than those two changes the flag, and only a
\* navigation the user issues evaluates the guard again.
C11_DeniedUntilLogin ==
    /\ [](\A P \in ProtectedPaths :
            ( /\ guardLog.url = P
              /\ guardLog.decision.kind = "redirect" \/ guardLog.prev.kind = "redirect" )
                => /\ current.path # P
                   /\ ~(nav.stage = "resolving" /\ nav.url.path = P))
    /\ [](guardLog.decision.kind = "redirect" =>
            /\ ~isAuthenticated
            /\ view \notin ProtectedPaths
            /\ nav.stage = "idle")
    /\ [][ isAuthenticated' # isAuthenticated =>
              /\ lastEvent'.op \in {"loginSuccess", "quickLogin"}
              /\ toggleCount' = toggleCount + 1 ]_vars
    /\ [][ (guardLog.decision.kind = "redirect" /\ guardLog' # guardLog) =>
              lastEvent'.op \in {"navigate", "loginSuccess", "quickLogin"} ]_vars

C11_Witness ==
    /\ guardLog.url = "/cart"
    /\ guardLog.decision = RedirectTo("/login", "/cart")
    /\ lastEvent.op = "navigate"
    /\ lastEvent.to = "/home"
    /\ current = Url("/home", NoParam)
    /\ ~isAuthenticated


\* C12: order on the /products route.  productsResolver is called (the
\* navigation starts waiting, or ends with the error a throwing getProducts
\* call leaves) only in a step whose guard evaluation for /products returned
\* Allow, never after a redirect decision; the products view is constructed
\* only by the step in which the resolver of the waiting /products
\* navigation delivers, and it receives what the resolver delivered.
C12_GuardThenResolverThenView ==
    /\ [][ ( \/ (nav'.stage = "resolving" /\ nav' # nav)
             \/ (lastEvent'.result = "error" /\ lastEvent'.op \notin {"loginFailure", "resolved"}) )
           => /\ lastEvent'.op \in {"navigate", "loginSuccess", "quickLogin"}
              /\ lastEvent'.to = "/products"
              /\ lastEvent'.decision = Allow
              /\ guardLog'.decision = Allow
              /\ isAuthenticated' ]_vars
    /\ [](lastEvent.decision.kind = "redirect" =>
             /\ lastEvent.result \in {"rendered", "skipped"}
             /\ nav.stage = "idle")
    /\ [](nav.stage = "resolving" => nav.url = Url("/products", NoParam))
    /\ [][ (view' = "/products" /\ view # "/products") =>
              /\ nav.stage = "resolving"
              /\ nav.url = Url("/products", NoParam)
              /\ lastEvent'.op = "resolved"
              /\ lastEvent'.result = "rendered"
              /\ resolved' = productsResolver(nav.outcome).data
              /\ nav'.stage = "idle" ]_vars

C12_Witness ==
    /\ lastEvent.op = "resolved"
    /\ lastEvent.result = "rendered"
    /\ view = "/products"
    /\ resolved = ProductList
    /\ guardLog.url = "/products"
    /\ guardLog.decision = Allow


\* C13: the flag changes only in a toggleAuth call.  A step changes the flag
\* exactly when it calls toggleAuth (one call, which flips it); the steps
\* that evaluate authGuard, read getAuthState, run productsResolver or
\* navigate without calling toggleAuth (a user navigation, the resolver's
\* delivery, a submission, a failed login, resetForm) leave it as it was.
C13_OnlyToggleAuthChangesFlag ==
    [][ /\ (isAuthenticated' # isAuthenticated) = (toggleCount' # toggleCount)
        /\ toggleCount' # toggleCount =>
              /\ toggleCount' = toggleCount + 1
              /\ isAuthenticated' = ~isAuthenticated
              /\ lastToggle' = <<isAuthenticated'>>
              /\ lastEvent'.op \in {"loginSuccess", "quickLogin"}
        /\ lastEvent'.op \in {"navigate", "resolved", "submit", "submitInvalid",
                              "loginFailure", "resetForm"} =>
              UNCHANGED <<isAuthenticated, toggleCount, lastToggle>>
        /\ \A u \in NavTargets : Navigate(u) => UNCHANGED isAuthenticated
        /\ ResolverDelivers => UNCHANGED isAuthenticated
      ]_vars

C13_Witness ==
    /\ lastEvent.op = "resolved"
    /\ lastEvent.result = "rendered"
    /\ guardLog.decision = Allow
    /\ toggleCount = 1
    /\ isAuthenticated
    /\ lastToggle = <<TRUE>>


\* C14: route protection.  A navigation to a protected path P whose guard
\* runs while the flag is false (a user navigation, or the navigateByUrl of
\* a login handler) does not display P: it ends on /login?returnUrl=P by the
\* guard's redirect.  A user navigation to /home, /login or an unknown path
\* displays its view with no guard evaluation, whatever the flag.
C14_RouteProtection ==
    [][ /\ \A P \in ProtectedPaths :
              ( /\ lastEvent'.op \in {"navigate", "loginSuccess", "quickLogin"}
                /\ lastEvent'.to = P
                /\ ~isAuthenticated' ) =>
                    /\ lastEvent'.decision = RedirectTo("/login", P)
                    /\ current' = Url("/login", P)
                    /\ view' = "/login"
        /\ \A u \in NavTargets :
              (u.path \notin ProtectedPaths /\ Navigate(u)) =>
                    /\ lastEvent'.decision = NoDecision
                    /\ guardLog' = guardLog
                    /\ current' = canonical(u)
                    /\ view' = routes(u.path).view
      ]_vars


\* C15: the timer callback of a submission whose credentials are not
\* test@test.com / 123456 leaves the flag and the component's
\* isAuthenticated signal as they were, issues no navigation (no guard
\* evaluation, nothing displayed or waiting changes), sets its component's
\* isLoading to false and ends with the Error the global error handler
\* receives.
C15_InvalidCredentials ==
    [][ ( /\ timers # <<>>
          /\ Head(timers).form = "bad"
          /\ TimerFires ) =>
            /\ UNCHANGED <<isAuthenticated, toggleCount, lastToggle, isAuthSignal>>
            /\ UNCHANGED <<current, nav, guardLog, resolved>>
            /\ IF Head(timers).live THEN ~isLoading' ELSE UNCHANGED isLoading
            /\ timers' = Tail(timers)
            /\ lastEvent' = Event("loginFailure", "-", NoDecision, "error")
      ]_vars

C15_Witness ==
    /\ lastEvent.op = "loginFailure"
    /\ lastEvent.result = "error"
    /\ view = "/login"
    /\ submitAttempts = 1
    /\ ~isLoading
    /\ timers = <<>>
    /\ toggleCount = 0


\* C16: onSubmit with an invalid form adds one to submitAttempts and changes
\* nothing else: isLoading keeps its value (false, unless an earlier valid
\* submission of the same component still has its timer pending), no timer
\* is scheduled, the flag and the signal are unchanged, no guard is
\* evaluated and no navigation is issued.
C16_InvalidFormOnlyCounts ==
    [][ OnSubmit("invalid") =>
            /\ submitAttempts' = submitAttempts + 1
            /\ UNCHANGED <<isLoading, timers>>
            /\ UNCHANGED <<isAuthenticated, toggleCount, lastToggle, isAuthSignal>>
            /\ UNCHANGED <<current, nav, guardLog, resolved>>
            /\ isLoading' => \E i \in DOMAIN timers : timers[i].live
            /\ lastEvent' = Event("submitInvalid", "-", NoDecision, "-")
      ]_vars

C16_Witness ==
    /\ lastEvent.op = "submitInvalid"
    /\ view = "/login"
    /\ submitAttempts = 1
    /\ ~isLoading
    /\ timers = <<>>


\* C17: a submission of a valid form sets isLoading and schedules its timer;
\* the callback of a timer whose component is still displayed sets isLoading
\* to false on the success branch and on the invalid-credentials branch;
\* isLoading is true only while a timer of the displayed component is
\* pending; and, the timers firing, isLoading never stays true.
C17_LoadingLifecycle ==
    /\ [][ \A form \in {"good", "bad"} :
              OnSubmit(form) =>
                  /\ isLoading'
                  /\ timers' = Append(timers, timers'[Len(timers')])
                  /\ timers'[Len(timers')].live
                  /\ timers'[Len(timers')].form = form ]_vars
    /\ [][ (timers # <<>> /\ Head(timers).live /\ TimerFires) =>
              /\ ~isLoading'
              /\ lastEvent'.op =
                    IF Head(timers).form = "good" THEN "loginSuccess" ELSE "loginFailure"
         ]_vars
    /\ [](isLoading => \E i \in DOMAIN timers : timers[i].live)
    /\ [](timers = <<>> => ~isLoading)
    /\ (isLoading ~> ~isLoading)

C17_Witness ==
    /\ lastEvent.op = "loginSuccess"
    /\ lastEvent.result = "resolving"
    /\ view = "/login"
    /\ submitAttempts = 1
    /\ ~isLoading
    /\ timers = <<>>


\* C18: quickLogin calls toggleAuth once (the flag flips), leaves the
\* component's isAuthenticated signal equal to the new flag value, and
\* issues a navigation exactly when the new value is true: to the returnUrl
\* parameter of the login view, or to /home when there is none; when the new
\* value is false nothing is navigated.
C18_QuickLogin ==
    [][ QuickLogin =>
            /\ isAuthenticated' = ~isAuthenticated
            /\ toggleCount' = toggleCount + 1
            /\ lastToggle' = <<isAuthenticated'>>
            /\ view' = "/login" => isAuthSignal' = isAuthenticated'
            /\ lastEvent'.op = "quickLogin"
            /\ (lastEvent'.to # "-") = isAuthenticated'
            /\ IF isAuthenticated'
               THEN /\ lastEvent'.to = IF loginQuery \in {NoParam, ""}
                                       THEN "/home" ELSE loginQuery
                    /\ lastEvent'.result \in {"rendered", "resolving"}
                    /\ lastEvent'.result = "rendered" =>
                          current' = Url(lastEvent'.to, NoParam)
                    /\ lastEvent'.result = "resolving" =>
                          nav'.url = Url(lastEvent'.to, NoParam)
               ELSE /\ lastEvent'.result = "-"
                    /\ nav' = nav
                    /\ UNCHANGED <<current, resolved, timers, isLoading, submitAttempts>>
      ]_vars

C18_Witness ==
    /\ lastEvent.op = "quickLogin"
    /\ lastEvent.to = "-"
    /\ view = "/login"
    /\ toggleCount = 2
    /\ ~isAuthenticated
    /\ ~isAuthSignal


\* C19: while a LoginComponent is displayed and no timer of an earlier
\* instance is pending, its isAuthenticated signal equals what getAuthState
\* returns.
C19_SignalMirrorsFlag ==
    (view = "/login" /\ \A i \in DOMAIN timers : timers[i].live) =>
        isAuthSignal = getAuthState(isAuthenticated)

\* C20: a protected view is displayed only while the flag is true.
C20_ProtectedViewOnlyWhileAuthenticated ==
    view \in ProtectedPaths => getAuthState(isAuthenticated)


\* C21: at most one simulated login request of a component is in flight: an
\* onSubmit call made while isLoading is true schedules no timer, so a
\* displayed component never has two timers pending and no two success
\* callbacks of overlapping submissions toggle the flag.
C21_OneLoginInFlight ==
    /\ [](Cardinality({i \in DOMAIN timers : timers[i].live}) <= 1)
    /\ [][ \A form \in FormValues :
              (isLoading /\ OnSubmit(form)) => timers' = timers ]_vars


====
